---- MODULE Spec2Model ----
(***************************************************************************)
(* Binary glTF container unpacking of GLTFFileLoader                       *)
(* (loaders/src/glTF/glTFFileLoader.ts): _unpackBinaryAsync,               *)
(* _unpackBinaryV1Async, _unpackBinaryV2Async, and the byte sources built  *)
(* by requestFile / readFile.  The DataReader (./dataReader) is modelled   *)
(* as the StreamingReader contract: a window [0, loaded) and a cursor.     *)
(***************************************************************************)
EXTENDS Integers, Sequences, FiniteSets, TLC

\* ---------------------------------------------------------------- bounds
\* longest BIN / unknown chunk payload and longest legacy trailing body
MaxLen == 2
\* largest number of chunks after the first chunk
MaxChunks == 3
\* most bytes missing at the end of a file that ends early
MaxCut == 2
\* longest asset.version text tried
MaxVersionLen == 5
MaxComponent == 3
MaxObservers == 2
MaxLoads == 2
MaxDisposes == 2

\* ------------------------------------------------------ program constants
Magic == 1179937895
ContentFormatJSON == 0
ChunkFormatJSON == 1313821514
ChunkFormatBIN == 5130562
HeaderLoadLength == 20
ChunkHeaderLength == 8
\* Number("*") : the value of dataBuffer.byteLength when the range response
\* declares no total size
NaN == -1

\* ------------------------------------------------------------ JSON texts
\* JSON.parse on the small texts the containers carry: surrounding
\* whitespace is insignificant, "{}" is an object, "[]" an array, anything
\* else (the empty text included) is a SyntaxError.
IsWhitespace(b) == b \in {9, 10, 13, 32}

RECURSIVE StripLeft(_)
StripLeft(s) ==
    IF s # <<>> /\ IsWhitespace(Head(s)) THEN StripLeft(Tail(s)) ELSE s

RECURSIVE StripRight(_)
StripRight(s) ==
    IF s # <<>> /\ IsWhitespace(s[Len(s)])
    THEN StripRight(SubSeq(s, 1, Len(s) - 1))
    ELSE s

ParseJson(text) ==
    LET t == StripRight(StripLeft(text))
    IN  IF t = <<123, 125>> THEN "object"
        ELSE IF t = <<91, 93>> THEN "array"
        ELSE "SyntaxError"

\* ----------------------------------------------------------- wire format
U32(n) ==
    << n % 256, (n \div 256) % 256, (n \div 65536) % 256,
       (n \div 16777216) % 256 >>

Payload(k, n) == [j \in 1..n |-> 10 * k + j]

RECURSIVE EncodeChunks(_, _)
EncodeChunks(chunks, k) ==
    IF chunks = <<>> THEN <<>>
    ELSE U32(Head(chunks).len) \o U32(Head(chunks).tag)
         \o Payload(k, Head(chunks).len)
         \o EncodeChunks(Tail(chunks), k + 1)

FlipAt(bytes, i) ==
    [j \in 1..Len(bytes) |-> IF j = i THEN (bytes[j] + 1) % 128 ELSE bytes[j]]

EncodeBody(c) ==
    U32(Len(c.text)) \o U32(c.firstTag) \o c.text
    \o (IF c.version = 1 THEN Payload(1, c.trailing)
                         ELSE EncodeChunks(c.tail, 1))

EncodeContainer(c) ==
    LET body == SubSeq(EncodeBody(c), 1, Len(EncodeBody(c)) - c.cut)
    IN  FlipAt(U32(Magic), c.magicFlip) \o U32(c.version)
        \o U32(12 + Len(body) + c.lenDelta) \o body

\* --------------------------------------------------------------- inputs
ObjectText == <<123, 125>>
ArrayText == <<91, 93, 32>>
ValidTexts == {ObjectText, ArrayText}
InvalidTexts == {<<>>, <<123>>}
\* a tag that is neither the JSON tag nor the BIN tag
UnknownTag == ChunkFormatBIN + 1
ChunkTags == {ChunkFormatJSON, ChunkFormatBIN, UnknownTag}
ChunkDescs == [tag : ChunkTags, len : 0..MaxLen]

RECURSIVE SeqsUpTo(_, _)
SeqsUpTo(S, n) ==
    IF n = 0 THEN {<<>>}
    ELSE LET shorter == SeqsUpTo(S, n - 1)
         IN  shorter \cup {Append(s, x) : s \in {t \in shorter : Len(t) = n - 1}, x \in S}

\* totalKnown: the first range response declares the total size;
\* laterTotalKnown: so does every later one
Transports ==
    { [mode |-> "memory", totalKnown |-> TRUE, laterTotalKnown |-> TRUE],
      [mode |-> "range", totalKnown |-> TRUE, laterTotalKnown |-> TRUE] }

\* a server that declares the total size in its first response only
FirstTotalOnly ==
    [mode |-> "range", totalKnown |-> TRUE, laterTotalKnown |-> FALSE]

\* a server that never declares the total size
NoTotal == [mode |-> "range", totalKnown |-> FALSE, laterTotalKnown |-> FALSE]

\* well-formed headers, chunked layout, one valid JSON text, any chunk
\* sequence
ChunkedInputs ==
    [ magicFlip : {0}, version : {2}, lenDelta : {0}, cut : {0},
      firstTag : {ChunkFormatJSON}, text : {ObjectText},
      trailing : {0}, tail : SeqsUpTo(ChunkDescs, MaxChunks),
      transport : Transports ]

\* well-formed headers, chunked layout, any JSON text, at most one further
\* chunk, whose tag may also be the legacy content tag
TextInputs ==
    [ magicFlip : {0}, version : {2}, lenDelta : {0}, cut : {0},
      firstTag : {ChunkFormatJSON}, text : ValidTexts \cup InvalidTexts,
      trailing : {0},
      tail : SeqsUpTo([tag : ChunkTags \cup {ContentFormatJSON}, len : {0, 1}], 1),
      transport : Transports \cup {FirstTotalOnly} ]

\* well-formed headers, chunked layout, up to two chunks of either unknown
\* tag and then a BIN chunk
SkippedInputs ==
    [ magicFlip : {0}, version : {2}, lenDelta : {0}, cut : {0},
      firstTag : {ChunkFormatJSON}, text : {ObjectText}, trailing : {0},
      tail : { Append(s, [tag |-> ChunkFormatBIN, len |-> n]) :
                 s \in SeqsUpTo([tag : {ContentFormatJSON, UnknownTag},
                                 len : 0..MaxLen], 2),
                 n \in 0..MaxLen },
      transport : Transports \cup {FirstTotalOnly} ]

\* well-formed headers, legacy layout, any JSON text, any trailing body
LegacyInputs ==
    [ magicFlip : {0}, version : {1}, lenDelta : {0}, cut : {0},
      firstTag : {ContentFormatJSON}, text : ValidTexts \cup InvalidTexts,
      trailing : 0..MaxLen, tail : {<<>>},
      transport : Transports ]

\* any combination of header defects over an otherwise valid container
HeaderInputs ==
    [ magicFlip : 0..4, version : 0..3, lenDelta : {0, 1}, cut : {0},
      firstTag : {ContentFormatJSON, ChunkFormatJSON, ChunkFormatBIN},
      text : {ObjectText}, trailing : {0, 1},
      tail : {<<>>, <<[tag |-> ChunkFormatBIN, len |-> 1]>>},
      transport : Transports \cup {NoTotal} ]

\* files that end early: a chunked container of BIN and unknown chunks whose
\* last cut bytes are missing, its header declaring the length that is left
TruncatedInputs ==
    [ magicFlip : {0}, version : {2}, lenDelta : {0}, cut : 1..MaxCut,
      firstTag : {ChunkFormatJSON}, text : {ObjectText}, trailing : {0},
      tail : SeqsUpTo([tag : {ChunkFormatBIN, UnknownTag}, len : 0..MaxLen], 2),
      transport : Transports ]

Inputs ==
    ChunkedInputs \cup TextInputs \cup SkippedInputs \cup LegacyInputs
    \cup HeaderInputs \cup TruncatedInputs

VARIABLES
    input,        \* the container and transport this load was given
    arrayBuffer,  \* the bytes of the file
    byteLength,   \* dataReader.buffer.byteLength
    byteOffset,   \* dataReader.byteOffset
    loaded,       \* the reader's window is [0, loaded)
    pending,      \* the read the reader is waiting on
    requests,     \* every read the decode issued to the byte source
    pc,           \* position of the decode's promise chain
    strategy,     \* decode strategy the version switch selected
    chunkLength,  \* chunkLength captured by the pending continuation
    data,         \* the IGLTFLoaderData under construction
    result,       \* what the unpack promise resolved with
    error,        \* what the unpack promise rejected with
    binRead,      \* the last read the caller made through result.bin
    fetches,      \* every readAsync on the byte source, with its state; under
                  \* range requests entry i is fileRequests[i]
    settled,      \* the handlers given to the unpack promise's then have run
    onSuccessCalls,    \* calls of the caller's onSuccess
    onErrorCalls,      \* calls of the caller's onError
    onCompleteCalls,   \* notifications of aggregatedFileRequest.onCompleteObservable
    consumed,     \* the end of the farthest byte a readUint32 or readString
                  \* has read
    assetVersion, \* the asset.version text given to _parseVersion
    parsed,       \* what _parseVersion returned for it
    operands,     \* three version pairs given to _compareVersion
    compared,     \* what _compareVersion returned for them, pair by pair
    assetMinVersion,   \* the asset.minVersion text of the loader data
    observers,    \* the observers of onParsedObservable
    onParsedObserver,  \* _onParsedObserver: the one the onParsed setter added
    added,        \* how many observers were ever added
    notified,     \* per observer, how often its callback was called
    loader,       \* _loader: the version-specific loader
    created,      \* calls of a createLoader function
    lastLoad,     \* the last call of a load entry point: which one, the
                  \* observers at its start, the ones it notified, its error
    disposals,    \* per loader created, in the order of creation, how
                  \* often its dispose was called
    disposeObservers,  \* the observers of onDisposeObservable
    onDisposeObserver, \* _onDisposeObserver: the one the onDispose setter added
    disposeAdded,      \* how many observers of onDisposeObservable were added
    disposeNotified,   \* per such observer, how often its callback was called
    disposal      \* the calls of dispose(): how many, after which load the
                  \* last one came, the observers the first one found

decodeVars ==
    << input, arrayBuffer, byteLength, byteOffset, loaded, pending, requests,
       pc, strategy, chunkLength, data, result, error, binRead, fetches,
       settled, onSuccessCalls, onErrorCalls, onCompleteCalls, consumed >>

disposeObserverVars ==
    << disposeObservers, onDisposeObserver, disposeAdded, disposeNotified,
       disposal >>

disposeVars == << disposals, disposeObserverVars >>

loadVars ==
    << operands, compared, assetMinVersion, observers, onParsedObserver,
       added, notified, loader, created, lastLoad, disposeVars >>

versionVars == << assetVersion, parsed, loadVars >>

vars == << decodeVars, versionVars >>

NoBin == [present |-> FALSE, start |-> 0, byteLength |-> 0]
NoData == [json |-> "none", bin |-> NoBin]
NoResult == [present |-> FALSE, json |-> "none", bin |-> NoBin]
NoPending == [status |-> "none", offset |-> 0, length |-> 0]
NoBinRead ==
    [status |-> "none", o |-> 0, n |-> 0, bytes |-> <<>>, request |-> <<0, 0>>]

\* the asset.version of a decode that has not come to _parseVersion
NoVersion == [defined |-> FALSE, text |-> <<>>]
NotParsed == [state |-> "unset", major |-> 0, minor |-> 0]

\* ------------------------------------------------------------ byte source
\* new Uint8Array(arrayBuffer, byteOffset, byteLength): a view of exactly
\* the requested bytes, a RangeError when the range leaves the buffer
InBounds(buf, off, n) == off >= 0 /\ n >= 0 /\ off + n <= Len(buf)

SourceRead(buf, off, n) ==
    IF InBounds(buf, off, n)
    THEN [ok |-> TRUE, bytes |-> SubSeq(buf, off + 1, off + n)]
    ELSE [ok |-> FALSE, bytes |-> <<>>]

\* the total size the "Content-Range: bytes a-b/total" header declares
ContentRangeTotal(c, buf) == IF c.transport.totalKnown THEN Len(buf) ELSE NaN

\* the same header on the responses after the first
LaterContentRangeTotal(c, buf) ==
    IF c.transport.laterTotalKnown THEN Len(buf) ELSE NaN

InitialByteLength(c, buf) == IF c.transport.mode = "memory" THEN Len(buf) ELSE 0

\* ----------------------------------------------------------------- reader
ReadUint32(buf, off) ==
    buf[off + 1] + 256 * buf[off + 2] + 65536 * buf[off + 3]
    + 16777216 * buf[off + 4]

Materialized(off, n) == off + n <= loaded

\* ensureAvailable(byteCount): one read for the missing suffix
\* [loaded, byteOffset + byteCount)
LoadRequest(off, byteCount) ==
    [status |-> "inflight", offset |-> loaded, length |-> off + byteCount - loaded]

\* --------------------------------------------------- unpacker: pure parts
\* mutant: only the low three bytes of the magic are compared
IsMagicLowBytes(magic) == magic % 16777216 = Magic % 16777216

IsMagic(magic) == magic = Magic

\* mutant: a source whose total size is not known passes the length check
LengthMatchesOrUnknown(length, bufferLength) ==
    bufferLength = NaN \/ length = bufferLength

\* length !== dataReader.buffer.byteLength (NaN equals nothing)
LengthMatches(length, bufferLength) ==
    bufferLength # NaN /\ length = bufferLength

\* mutant: the switch has no rejecting default
SelectStrategyNoDefault(version) ==
    CASE version = 1 -> "legacy"
      [] OTHER -> "chunked"

SelectStrategy(version) ==
    CASE version = 1 -> "legacy"
      [] version = 2 -> "chunked"
      [] OTHER -> "unsupported"

IsContentFormatJSON(contentFormat) == contentFormat = ContentFormatJSON

\* mutant: any known chunk tag is accepted for the first chunk
IsChunkFormatKnown(chunkFormat) ==
    chunkFormat \in {ChunkFormatJSON, ChunkFormatBIN}

IsChunkFormatJSON(chunkFormat) == chunkFormat = ChunkFormatJSON

\* dataReader.buffer.byteLength - dataReader.byteOffset, taken where the
\* source takes it
BodyLength(bufferLength, off) == bufferLength - off

\* mutant: the chunk length alone is compared with the length of the source
NoOtherChunksByLength(off, len, bufferLength) ==
    bufferLength # NaN /\ len = bufferLength

\* dataReader.byteOffset + chunkLength === dataReader.buffer.byteLength
NoOtherChunks(off, len, bufferLength) ==
    bufferLength # NaN /\ off + len = bufferLength

\* mutant: an unrecognized chunk format is rejected like a second JSON chunk
ChunkKindStrict(chunkFormat) ==
    CASE chunkFormat = ChunkFormatBIN -> "BIN"
      [] OTHER -> "JSON"

\* mutant: a second JSON chunk is ignored like an unrecognized one
ChunkKindNoDuplicateCheck(chunkFormat) ==
    CASE chunkFormat = ChunkFormatBIN -> "BIN"
      [] OTHER -> "other"

ChunkKind(chunkFormat) ==
    CASE chunkFormat = ChunkFormatJSON -> "JSON"
      [] chunkFormat = ChunkFormatBIN -> "BIN"
      [] OTHER -> "other"

\* mutant: the view starts at the chunk header instead of the payload
BinViewAtHeader(startByteOffset, len) ==
    [present |-> TRUE, start |-> startByteOffset - ChunkHeaderLength,
     byteLength |-> len]

\* mutant: the view is not moved to where the chunk's payload starts
BinViewFromFileStart(startByteOffset, len) ==
    [present |-> TRUE, start |-> 0, byteLength |-> len]

BinView(startByteOffset, len) ==
    [present |-> TRUE, start |-> startByteOffset, byteLength |-> len]

\* mutant: a BIN chunk after the first one is ignored
WithFirstBin(d, view) == IF d.bin.present THEN d ELSE [d EXCEPT !.bin = view]

\* data.bin = { ... }: assigned for every BIN chunk met
WithBin(d, view) == [d EXCEPT !.bin = view]

\* the range of the source a read of n bytes at o of the bin view asks for
BinRequest(bin, o, n) == << bin.start + o, n >>

\* bin.readAsync(byteOffset, byteLength)
BinReadAsync(bin, o, n) ==
    SourceRead(arrayBuffer, BinRequest(bin, o, n)[1], BinRequest(bin, o, n)[2])

\* mutant: the loop does not stop at the end of the source
MoreChunksAlways(off, bufferLength) == TRUE

\* mutant: the loop stops as soon as the cursor is at or past the end
MoreChunksBeforeEnd(off, bufferLength) == bufferLength = NaN \/ off < bufferLength

\* dataReader.byteOffset !== dataReader.buffer.byteLength
MoreChunks(off, bufferLength) == bufferLength = NaN \/ off # bufferLength

\* ------------------------------------------------ unpacker: continuations
\* What one continuation of the promise chain leaves behind: where the chain
\* stands, the cursor, the data built so far, the number of bytes of the
\* loadAsync it ends with (<<>> when it ends without one), and where its
\* last readUint32 or readString ended (at the cursor, unless bytes were
\* skipped after it).
Outcome(p, e, s, off, len, d, load) ==
    [pc |-> p, error |-> e, strategy |-> s, byteOffset |-> off,
     chunkLength |-> len, data |-> d, load |-> load, read |-> off]

Failed(e, s, off, d) == Outcome("Fail", e, s, off, chunkLength, d, <<>>)

\* readString(n) at off followed by _parseJson: the text's value,
\* "SyntaxError" when JSON.parse throws, "Fault" when the bytes are not
\* materialized and the reader faults. A reader that does not fault on
\* unmaterialized bytes hands out the bytes of the underlying buffer.
ReadJson(off, n, faults) ==
    IF Materialized(off, n) \/ (~faults /\ InBounds(arrayBuffer, off, n))
    THEN ParseJson(SubSeq(arrayBuffer, off + 1, off + n))
    ELSE "Fault"

UnpackBinaryV1(off, faults) ==
    LET contentLength == ReadUint32(arrayBuffer, off)
        contentFormat == ReadUint32(arrayBuffer, off + 4)
        bodyLength == BodyLength(byteLength, off + 8)
        json == ReadJson(off + 8, contentLength, faults)
        end == off + 8 + contentLength
    IN  IF ~IsContentFormatJSON(contentFormat)
        THEN Failed("UnexpectedContentFormat", "legacy", off + 8, NoData)
        ELSE IF json \in {"Fault", "SyntaxError"}
        THEN Failed(json, "legacy", IF json = "Fault" THEN off + 8 ELSE end, NoData)
        ELSE Outcome("Done", "none", "legacy", end, chunkLength,
                     [json |-> json,
                      bin |-> IF bodyLength # 0 THEN BinView(end, bodyLength)
                                                ELSE NoBin],
                     <<>>)

UnpackBinaryV2(off) ==
    LET len == ReadUint32(arrayBuffer, off)
        chunkFormat == ReadUint32(arrayBuffer, off + 4)
    IN  IF ~IsChunkFormatJSON(chunkFormat)
        THEN Failed("FirstChunkNotJson", "chunked", off + 8, NoData)
        ELSE IF NoOtherChunks(off + 8, len, byteLength)
        THEN Outcome("JsonOnly", "none", "chunked", off + 8, len, NoData, <<len>>)
        ELSE Outcome("JsonAndNext", "none", "chunked", off + 8, len, NoData,
                     <<len + ChunkHeaderLength>>)

\* mutant: the declared length is checked before the magic
HeaderContinuationLengthFirst(off, faults) ==
    LET magic == ReadUint32(arrayBuffer, off)
        version == ReadUint32(arrayBuffer, off + 4)
        length == ReadUint32(arrayBuffer, off + 8)
    IN  IF ~LengthMatches(length, byteLength)
        THEN Failed("LengthMismatch", "none", off + 12, NoData)
        ELSE IF ~IsMagic(magic)
        THEN Failed("BadMagic", "none", off + 4, NoData)
        ELSE CASE SelectStrategy(version) = "legacy" -> UnpackBinaryV1(off + 12, faults)
               [] SelectStrategy(version) = "chunked" -> UnpackBinaryV2(off + 12)
               [] OTHER -> Failed("UnsupportedContainerVersion", "none", off + 12, NoData)

\* the continuation of dataReader.loadAsync(20)
HeaderContinuation(off, faults) ==
    LET magic == ReadUint32(arrayBuffer, off)
        version == ReadUint32(arrayBuffer, off + 4)
        length == ReadUint32(arrayBuffer, off + 8)
    IN  IF ~IsMagic(magic)
        THEN Failed("BadMagic", "none", off + 4, NoData)
        ELSE IF ~LengthMatches(length, byteLength)
        THEN Failed("LengthMismatch", "none", off + 12, NoData)
        ELSE CASE SelectStrategy(version) = "legacy" -> UnpackBinaryV1(off + 12, faults)
               [] SelectStrategy(version) = "chunked" -> UnpackBinaryV2(off + 12)
               [] OTHER -> Failed("UnsupportedContainerVersion", "none", off + 12, NoData)

\* mutant: the payload is skipped twice
SkipBytesTwice(off, n) == off + 2 * n

\* mutant: the next chunk's header is skipped with the payload
SkipBytesAndHeader(off, n) == off + n + ChunkHeaderLength

\* dataReader.skipBytes(chunkLength): the cursor moves, nothing is loaded
SkipBytes(off, n) == off + n

\* the inner readAsync of _unpackBinaryV2Async: one chunk header at off
ReadChunk(off, d) ==
    LET len == ReadUint32(arrayBuffer, off)
        chunkFormat == ReadUint32(arrayBuffer, off + 4)
        kind == ChunkKind(chunkFormat)
        next == SkipBytes(off + 8, len)
        d2 == IF kind = "BIN" THEN WithBin(d, BinView(off + 8, len)) ELSE d
    IN  IF kind = "JSON"
        THEN Failed("DuplicateJsonChunk", "chunked", off + 8, d)
        ELSE IF MoreChunks(next, byteLength)
        THEN [Outcome("NextHeader", "none", "chunked", next, len, d2,
                      <<ChunkHeaderLength>>) EXCEPT !.read = off + 8]
        ELSE [Outcome("Done", "none", "chunked", next, len, d2, <<>>)
                 EXCEPT !.read = off + 8]

\* the continuation of dataReader.loadAsync(chunkLength) (no other chunks)
JsonOnlyContinuation(off, len) ==
    LET json == ReadJson(off, len, TRUE)
    IN  IF json \in {"Fault", "SyntaxError"}
        THEN Failed(json, "chunked", off + len, NoData)
        ELSE Outcome("Done", "none", "chunked", off + len, len,
                     [json |-> json, bin |-> NoBin], <<>>)

\* the continuation of dataReader.loadAsync(chunkLength + 8)
JsonAndNextContinuation(off, len) ==
    LET json == ReadJson(off, len, TRUE)
    IN  IF json \in {"Fault", "SyntaxError"}
        THEN Failed(json, "chunked", off + len, NoData)
        ELSE ReadChunk(off + len, [json |-> json, bin |-> NoBin])

\* ---------------------------------------------------------- _parseVersion
\* Text is a sequence of characters, each a string of length one.
Digits == {"0", "1", "2", "3", "4", "5", "6", "7", "8", "9"}

DigitValue(ch) ==
    CASE ch = "0" -> 0 [] ch = "1" -> 1 [] ch = "2" -> 2 [] ch = "3" -> 3
      [] ch = "4" -> 4 [] ch = "5" -> 5 [] ch = "6" -> 6 [] ch = "7" -> 7
      [] ch = "8" -> 8 [] ch = "9" -> 9

\* version + "": the text itself, "undefined" for a missing version
Stringify(v) ==
    IF v.defined THEN v.text
    ELSE << "u", "n", "d", "e", "f", "i", "n", "e", "d" >>

\* \d* at position from: the number of digits that follow each other there
RECURSIVE DigitRun(_, _)
DigitRun(t, from) ==
    IF from <= Len(t) /\ t[from] \in Digits THEN 1 + DigitRun(t, from + 1) ELSE 0

\* parseInt of a run of digits, read from the left; NaN for an empty text
RECURSIVE ParseIntFrom(_, _, _)
ParseIntFrom(ds, k, acc) ==
    IF k > Len(ds) THEN acc
    ELSE ParseIntFrom(ds, k + 1, 10 * acc + DigitValue(ds[k]))

ParseInt(ds) == IF ds = <<>> THEN NaN ELSE ParseIntFrom(ds, 1, 0)

NoMatch == [matched |-> FALSE, major |-> <<>>, minor |-> <<>>]

\* mutant: the minor group may be empty, /^(\d+)\.(\d*)/
MatchVersionEmptyMinor(t) ==
    LET n1 == DigitRun(t, 1)
        n2 == DigitRun(t, n1 + 2)
    IN  IF n1 >= 1 /\ n1 + 1 <= Len(t) /\ t[n1 + 1] = "."
        THEN [matched |-> TRUE, major |-> SubSeq(t, 1, n1),
              minor |-> SubSeq(t, n1 + 2, n1 + 1 + n2)]
        ELSE NoMatch

\* t.match(/^(\d+)\.(\d+)/): the two groups, or no match
MatchVersion(t) ==
    LET n1 == DigitRun(t, 1)
        n2 == DigitRun(t, n1 + 2)
    IN  IF n1 >= 1 /\ n1 + 1 <= Len(t) /\ t[n1 + 1] = "." /\ n2 >= 1
        THEN [matched |-> TRUE, major |-> SubSeq(t, 1, n1),
              minor |-> SubSeq(t, n1 + 2, n1 + 1 + n2)]
        ELSE NoMatch

VersionOf(major, minor) == [state |-> "version", major |-> major, minor |-> minor]
Null == [state |-> "null", major |-> 0, minor |-> 0]

ParseVersion(v) ==
    IF v.defined /\ v.text \in { << "1", ".", "0" >>, << "1", ".", "0", ".", "1" >> }
    THEN VersionOf(1, 0)
    ELSE LET match == MatchVersion(Stringify(v))
         IN  IF ~match.matched THEN Null
             ELSE VersionOf(ParseInt(match.major), ParseInt(match.minor))

\* the version texts tried: every text of up to MaxVersionLen characters
\* over a small alphabet, a text without any digit, and a missing version
VersionAlphabet == {"0", "1", "2", ".", "g"}
Garbage == << "g", "a", "r", "b", "a", "g", "e" >>
VersionInputs ==
    [defined : {TRUE}, text : SeqsUpTo(VersionAlphabet, MaxVersionLen) \cup {Garbage}]
    \cup {NoVersion}

\* -------------------------------------------------------- _compareVersion
Pair(major, minor) == [major |-> major, minor |-> minor]

\* mutant: the minor components are compared before the major ones
CompareVersionMinorFirst(a, b) ==
    CASE a.minor > b.minor -> 1
      [] a.minor < b.minor -> 0 - 1
      [] a.major > b.major -> 1
      [] a.major < b.major -> 0 - 1
      [] OTHER -> 0

\* _compareVersion(a, b): the first of the four tests that holds returns
CompareVersion(a, b) ==
    IF a.major > b.major THEN 1
    ELSE IF a.major < b.major THEN 0 - 1
    ELSE IF a.minor > b.minor THEN 1
    ELSE IF a.minor < b.minor THEN 0 - 1
    ELSE 0

Pairs == [major : 0..MaxComponent, minor : 0..MaxComponent]
NotCompared == [state |-> "unset", ab |-> 0, ba |-> 0, bc |-> 0, ac |-> 0]

\* ------------------------------------------------------------- _getLoader
NoError == "none"
Created(major) == [state |-> "created", major |-> major]
NoLoader == [state |-> "null", major |-> 0]
Chosen(major) == [error |-> NoError, major |-> major]
Thrown(e) == [error |-> e, major |-> 0]

\* createLoaders: the table of the two version-specific loaders
CreateLoaders == {1, 2}

\* mutant: the major version is looked up before minVersion is examined
GetLoaderMajorFirst(v, m) ==
    LET version == ParseVersion(v)
        minVersion == ParseVersion(m)
    IN  IF version = Null THEN Thrown("InvalidVersion")
        ELSE IF version.major \notin CreateLoaders
        THEN Thrown("UnsupportedVersion")
        ELSE IF m.defined /\ minVersion = Null
        THEN Thrown("InvalidMinVersion")
        ELSE IF m.defined /\ CompareVersion(minVersion, Pair(2, 0)) > 0
        THEN Thrown("IncompatibleMinVersion")
        ELSE Chosen(version.major)

\* _getLoader(loaderData) for asset.version v and asset.minVersion m: the
\* major version of the loader it creates, or the error it throws
GetLoader(v, m) ==
    LET version == ParseVersion(v)
        minVersion == ParseVersion(m)
    IN  IF version = Null THEN Thrown("InvalidVersion")
        ELSE IF m.defined /\ minVersion = Null
        THEN Thrown("InvalidMinVersion")
        ELSE IF m.defined /\ CompareVersion(minVersion, Pair(2, 0)) > 0
        THEN Thrown("IncompatibleMinVersion")
        ELSE IF version.major \notin CreateLoaders
        THEN Thrown("UnsupportedVersion")
        ELSE Chosen(version.major)

\* the character of a one-digit number
DigitChar(n) == CHOOSE ch \in Digits : DigitValue(ch) = n

\* the asset texts tried: major.minor for small components, texts that are
\* no version or have more than a version in them, and a missing text
Malformed ==
    { << "g" >>, << "2" >>, << "2", "." >>, << ".", "0" >>,
      << "1", ".", "0", ".", "1" >>, << "2", ".", "0", "g" >> }
AssetTexts ==
    [defined : {TRUE},
     text : { << DigitChar(a), ".", DigitChar(b) >> :
                  a \in 0..MaxComponent, b \in 0..1 } \cup Malformed]
    \cup {NoVersion}

\* ----------------------------------------------------- onParsedObservable
Observers == 1..MaxObservers
NoLoad ==
    [calls |-> 0, entry |-> "none", registered |-> {}, raised |-> {},
     error |-> NoError]

\* onParsedObservable.clear()
Clear(obs) == {}

\* onParsedObservable.notifyObservers(data): every observer's callback runs
NotifyObservers(obs, counts) ==
    [o \in Observers |-> IF o \in obs THEN counts[o] + 1 ELSE counts[o]]

\* onParsedObservable.remove(observer)
Remove(obs, o) == obs \ {o}

\* ------------------------------------------------- requestFile, readFile
\* one readAsync on the byte source: the range asked for, how far the read
\* got, and the total size its response declared
NewFetch(off, n) ==
    [offset |-> off, length |-> n, status |-> "inflight", total |-> 0]

HasResponse(fs) == \E i \in 1..Len(fs) : fs[i].status = "done"

\* the total size a response declares: in memory the buffer's own length
ResponseTotal(c, buf, fs) ==
    CASE c.transport.mode = "memory" -> Len(buf)
      [] ~HasResponse(fs) -> ContentRangeTotal(c, buf)
      [] OTHER -> LaterContentRangeTotal(c, buf)

\* mutant: only the first response sets dataBuffer.byteLength
ByteLengthOfFirstResponse(mode, current, total) ==
    IF mode = "range" /\ current = 0 THEN total ELSE current

\* dataBuffer.byteLength = Number(...): every range response assigns it
ByteLengthAfterResponse(mode, current, total) ==
    IF mode = "range" THEN total ELSE current

Answered(fs, status, total) ==
    [fs EXCEPT ![Len(fs)] = [@ EXCEPT !.status = status, !.total = total]]

\* mutant: a read outside the buffer is never answered
ReadFailsOnNetwork(mode, buf, off, n) == mode = "range"

\* a read can fail: new Uint8Array(...) throws outside the buffer, a range
\* request can fail whatever it asks for
ReadFails(mode, buf, off, n) == ~InBounds(buf, off, n) \/ mode = "range"

\* fileRequest.abort(): a fetch in flight is cancelled, a finished one is
\* left as it is
AbortRequest(f) ==
    IF f.status = "inflight" THEN [f EXCEPT !.status = "aborted"] ELSE f

\* a cancelled fetch delivers no response: its read fails
Answerable(f) == f.status = "inflight"

\* mutant: only the first sub-request is aborted
AbortFirst(fs) ==
    [i \in 1..Len(fs) |-> IF i = 1 THEN AbortRequest(fs[i]) ELSE fs[i]]

\* fileRequests.forEach((fileRequest) => fileRequest.abort())
AbortAll(fs) == [i \in 1..Len(fs) |-> AbortRequest(fs[i])]

\* mutant: a continuation does not wait for the read it follows
ResolvedOrInFlight(p) == p.status \in {"resolved", "inflight"}

\* the promise a continuation is chained to has been fulfilled
Resolved(p) == p.status = "resolved"

\* onCompleteObservable.notifyObservers: in the fulfilment handler of the
\* range branch only
NotifiesComplete(mode, p) == IF mode = "range" /\ p = "Done" THEN 1 ELSE 0

SuccessCalls(p) == IF p = "Done" THEN 1 ELSE 0

\* mutant: onError is not handed to then
ErrorCallsNever(p) == 0

\* mutant: onError runs whatever the outcome
ErrorCallsAlways(p) == 1

ErrorCalls(p) == IF p = "Fail" THEN 1 ELSE 0

\* ---------------------------------------------------------------- actions
\* the state in which requestFile or readFile starts the decode of c
DecodeInit(c) ==
    /\ input = c
    /\ arrayBuffer = EncodeContainer(c)
    /\ byteLength = InitialByteLength(c, EncodeContainer(c))
    /\ byteOffset = 0
    /\ loaded = 0
    /\ pending = NoPending
    /\ requests = <<>>
    /\ pc = "Start"
    /\ strategy = "none"
    /\ chunkLength = 0
    /\ data = NoData
    /\ result = NoResult
    /\ error = "none"
    /\ binRead = NoBinRead
    /\ fetches = <<>>
    /\ settled = FALSE
    /\ onSuccessCalls = 0
    /\ onErrorCalls = 0
    /\ onCompleteCalls = 0
    /\ consumed = 0

\* no loader to dispose, no observer of onDisposeObservable, no dispose
NoDisposal == [calls |-> 0, atLoad |-> 0, first |-> {}]

DisposeIdle ==
    /\ disposals = << >>
    /\ disposeObservers = {}
    /\ onDisposeObserver = 0
    /\ disposeAdded = 0
    /\ disposeNotified = [o \in 1..MaxObservers |-> 0]
    /\ disposal = NoDisposal

\* nothing has been compared, no observer added, no load called
LoadIdle ==
    /\ operands = << Pair(0, 0), Pair(0, 0), Pair(0, 0) >>
    /\ compared = NotCompared
    /\ assetMinVersion = NoVersion
    /\ observers = {}
    /\ onParsedObserver = 0
    /\ added = 0
    /\ notified = [o \in Observers |-> 0]
    /\ loader = NoLoader
    /\ created = 0
    /\ lastLoad = NoLoad
    /\ DisposeIdle

Init ==
    /\ \E c \in Inputs : DecodeInit(c)
    /\ assetVersion = NoVersion
    /\ parsed = NotParsed
    /\ LoadIdle

\* a continuation ran: take over what it left and issue its loadAsync
Continue(o) ==
    /\ pc' = o.pc
    /\ error' = o.error
    /\ strategy' = o.strategy
    /\ byteOffset' = o.byteOffset
    /\ chunkLength' = o.chunkLength
    /\ data' = o.data
    /\ result' = IF o.pc = "Done"
                 THEN [present |-> TRUE, json |-> o.data.json, bin |-> o.data.bin]
                 ELSE result
    /\ pending' = IF o.load = <<>> THEN NoPending
                  ELSE LoadRequest(o.byteOffset, o.load[1])
    /\ requests' = IF o.load = <<>> THEN requests
                   ELSE Append(requests, << loaded, o.byteOffset + o.load[1] - loaded >>)
    /\ fetches' = IF o.load = <<>> THEN fetches
                  ELSE Append(fetches,
                              NewFetch(loaded, o.byteOffset + o.load[1] - loaded))
    /\ consumed' = IF o.read > consumed THEN o.read ELSE consumed
    /\ UNCHANGED << input, arrayBuffer, byteLength, loaded, binRead, settled,
                    onSuccessCalls, onErrorCalls, onCompleteCalls, versionVars >>

\* _unpackBinaryAsync is called: dataReader.loadAsync(20)
UnpackBinaryAsync ==
    /\ pc = "Start"
    /\ Continue(Outcome("Header", "none", "none", byteOffset, chunkLength, data,
                        <<HeaderLoadLength>>))

\* the byte source answers the pending read with the bytes asked for
SourceResolve ==
    /\ pending.status = "inflight"
    /\ Answerable(fetches[Len(fetches)])
    /\ InBounds(arrayBuffer, pending.offset, pending.length)
    /\ pending' = [pending EXCEPT !.status = "resolved"]
    /\ loaded' = pending.offset + pending.length
    /\ LET total == ResponseTotal(input, arrayBuffer, fetches)
       IN  /\ fetches' = Answered(fetches, "done", total)
           /\ byteLength' = ByteLengthAfterResponse(input.transport.mode,
                                                    byteLength, total)
    /\ UNCHANGED << input, arrayBuffer, byteOffset, requests, pc, strategy,
                    chunkLength, data, result, error, binRead, settled,
                    onSuccessCalls, onErrorCalls, onCompleteCalls, consumed, versionVars >>

\* the pending read fails (a range outside the source, the fetch fails, or
\* the fetch was aborted) and the rejection reaches the end of the chain
SourceReject ==
    /\ pending.status = "inflight"
    /\ ReadFails(input.transport.mode, arrayBuffer, pending.offset, pending.length)
    /\ pending' = NoPending
    /\ fetches' = IF fetches[Len(fetches)].status = "aborted" THEN fetches
                  ELSE Answered(fetches, "failed", 0)
    /\ pc' = "Fail"
    /\ error' = "SourceReadError"
    /\ UNCHANGED << input, arrayBuffer, byteLength, byteOffset, loaded, requests,
                    strategy, chunkLength, data, result, binRead, settled,
                    onSuccessCalls, onErrorCalls, onCompleteCalls, consumed, versionVars >>

\* aggregatedFileRequest.abort() is called
Abort ==
    /\ input.transport.mode = "range"
    /\ fetches' = AbortAll(fetches)
    /\ UNCHANGED << input, arrayBuffer, byteLength, byteOffset, loaded, pending,
                    requests, pc, strategy, chunkLength, data, result, error,
                    binRead, settled, onSuccessCalls, onErrorCalls,
                    onCompleteCalls, consumed, versionVars >>

HeaderLoaded ==
    /\ pc = "Header"
    /\ Resolved(pending)
    /\ \E faults \in BOOLEAN : Continue(HeaderContinuation(byteOffset, faults))

JsonOnlyLoaded ==
    /\ pc = "JsonOnly"
    /\ Resolved(pending)
    /\ Continue(JsonOnlyContinuation(byteOffset, chunkLength))

JsonAndNextLoaded ==
    /\ pc = "JsonAndNext"
    /\ Resolved(pending)
    /\ Continue(JsonAndNextContinuation(byteOffset, chunkLength))

NextHeaderLoaded ==
    /\ pc = "NextHeader"
    /\ Resolved(pending)
    /\ Continue(ReadChunk(byteOffset, data))

\* the unpack promise is settled: then(onSuccess, onError) runs one of its
\* two handlers
Settle ==
    /\ pc \in {"Done", "Fail"}
    /\ ~settled
    /\ settled' = TRUE
    /\ onCompleteCalls' = onCompleteCalls + NotifiesComplete(input.transport.mode, pc)
    /\ onSuccessCalls' = onSuccessCalls + SuccessCalls(pc)
    /\ onErrorCalls' = onErrorCalls + ErrorCalls(pc)
    /\ UNCHANGED << input, arrayBuffer, byteLength, byteOffset, loaded, pending,
                    requests, pc, strategy, chunkLength, data, result, error,
                    binRead, fetches, consumed, versionVars >>

\* the caller reads through the bin view of the result it was handed; over
\* range requests the read is one more fetch, which may fail, and whose
\* response sets dataBuffer.byteLength again. Reads through bin leave nothing
\* behind that a later read depends on, so one read is followed per behaviour.
BinRead ==
    /\ pc = "Done"
    /\ onSuccessCalls > 0
    /\ result.bin.present
    /\ binRead.status = "none"
    /\ \E o \in 0..MaxLen, n \in 0..MaxLen, fetched \in BOOLEAN :
          LET r == BinReadAsync(result.bin, o, n)
              q == BinRequest(result.bin, o, n)
              total == ResponseTotal(input, arrayBuffer, fetches)
              answered == r.ok /\ fetched
          IN  /\ fetched \/ input.transport.mode = "range"
              /\ binRead' = [status |-> IF answered THEN "ok" ELSE "error",
                             o |-> o, n |-> n,
                             bytes |-> IF fetched THEN r.bytes ELSE <<>>,
                             request |-> q]
              /\ fetches' = Append(fetches,
                                   [offset |-> q[1], length |-> q[2],
                                    status |-> IF answered THEN "done" ELSE "failed",
                                    total |-> IF answered THEN total ELSE 0])
              /\ byteLength' = IF answered
                               THEN ByteLengthAfterResponse(input.transport.mode,
                                                            byteLength, total)
                               ELSE byteLength
    /\ UNCHANGED << input, arrayBuffer, byteOffset, loaded, pending,
                    requests, pc, strategy, chunkLength, data, result, error,
                    settled, onSuccessCalls, onErrorCalls, onCompleteCalls,
                    consumed, versionVars >>

Next ==
    \/ UnpackBinaryAsync
    \/ SourceResolve
    \/ SourceReject
    \/ Abort
    \/ HeaderLoaded
    \/ JsonOnlyLoaded
    \/ JsonAndNextLoaded
    \/ NextHeaderLoaded
    \/ Settle
    \/ BinRead

Spec == Init /\ [][Next]_vars

\* ------------------------------------------------ decodes that progress
\* the steps of a decode: its reads are answered and the continuations of
\* its promise chain run
DecodeStep ==
    \/ UnpackBinaryAsync
    \/ SourceResolve
    \/ SourceReject
    \/ HeaderLoaded
    \/ JsonOnlyLoaded
    \/ JsonAndNextLoaded
    \/ NextHeaderLoaded

\* every family of inputs but the one of all chunk sequences
ProgressInputs ==
    TextInputs \cup SkippedInputs \cup LegacyInputs \cup HeaderInputs
    \cup TruncatedInputs

ProgressInit ==
    /\ \E c \in ProgressInputs : DecodeInit(c)
    /\ assetVersion = NoVersion
    /\ parsed = NotParsed
    /\ LoadIdle

\* every read is answered in the end and every continuation that can run
\* does run
ProgressSpec == ProgressInit /\ [][Next]_vars /\ WF_vars(DecodeStep)

\* ------------------------------------------ _parseVersion on its own
\* a decode that is not looked at while _parseVersion is applied
IdleInput ==
    [magicFlip |-> 0, version |-> 2, lenDelta |-> 0, cut |-> 0,
     firstTag |-> ChunkFormatJSON,
     text |-> ObjectText, trailing |-> 0, tail |-> <<>>,
     transport |-> [mode |-> "memory", totalKnown |-> TRUE,
                    laterTotalKnown |-> TRUE]]

VersionInit ==
    /\ DecodeInit(IdleInput)
    /\ assetVersion \in VersionInputs
    /\ parsed = NotParsed
    /\ LoadIdle

\* _parseVersion(asset.version) is called
ParseVersionCall ==
    /\ parsed.state = "unset"
    /\ parsed' = ParseVersion(assetVersion)
    /\ UNCHANGED << decodeVars, assetVersion, loadVars >>

VersionNext == ParseVersionCall

VersionSpec == VersionInit /\ [][VersionNext]_vars

\* ------------------------------------------------------ the claims' terms
Mode == input.transport.mode
TextLength == Len(input.text)
Chunks == input.tail
MagicOk == input.magicFlip = 0
\* the header passes the magic and the declared-length checks
HeaderOk == MagicOk /\ input.lenDelta = 0 /\ input.transport.totalKnown
ValidJson == ParseJson(input.text) # "SyntaxError"
WellFormedChunked ==
    HeaderOk /\ input.cut = 0 /\ input.version = 2 /\ input.firstTag = ChunkFormatJSON /\ ValidJson
WellFormedLegacy ==
    HeaderOk /\ input.version = 1 /\ input.firstTag = ContentFormatJSON /\ ValidJson
\* the decode fails only where the transport does
OnlyTransportFails ==
    pc = "Fail" => Mode = "range" /\ error = "SourceReadError"
\* the decode failed, and not because the transport did
FailsWith(e) ==
    /\ pc # "Done"
    /\ ~result.present
    /\ pc = "Fail" => error = e \/ (Mode = "range" /\ error = "SourceReadError")
\* the reads issued so far are the first ones of the sequence rs
IssuedPrefixOf(rs) ==
    Len(requests) <= Len(rs) /\ requests = SubSeq(rs, 1, Len(requests))
HeaderRead == << 0, HeaderLoadLength >>
\* offset of the first payload byte of chunk i of the tail
RECURSIVE ChunkStart(_)
ChunkStart(i) ==
    IF i = 1 THEN HeaderLoadLength + TextLength + ChunkHeaderLength
    ELSE ChunkStart(i - 1) + Chunks[i - 1].len + ChunkHeaderLength
\* what a read through bin must return when bin is chunk i of the tail
BinReadsChunk(i) ==
    /\ result.bin.present
    /\ result.bin.byteLength = Chunks[i].len
    /\ result.bin.start = ChunkStart(i)
    /\ binRead.status # "none" /\ binRead.o + binRead.n <= Chunks[i].len
         => /\ Mode = "memory" => binRead.status = "ok"
            /\ binRead.status = "ok"
                 => binRead.bytes
                      = SubSeq(Payload(i, Chunks[i].len), binRead.o + 1,
                               binRead.o + binRead.n)
HeaderProcessed == pc \notin {"Start", "Header"} /\ error # "SourceReadError"
RequestsWithin(n) == \A i \in 1..Len(requests) : requests[i][1] + requests[i][2] <= n

\* ------------------------------------------------------------------ C1
JsonThenBin == WellFormedChunked /\ Len(Chunks) = 1 /\ Chunks[1].tag = ChunkFormatBIN

\* C1: a well-formed chunked container of a JSON chunk and a BIN chunk
\* unpacks (it fails only where the transport does); bin.byteLength is the
\* BIN chunk's declared length, bin starts right after the BIN chunk's
\* 8-byte header, and every read (o, n) with o + n <= bin.byteLength returns
\* exactly the n payload bytes from o on.
C1_BinIsBinChunkPayload ==
    JsonThenBin =>
        /\ OnlyTransportFails
        /\ pc = "Done" => result.json = ParseJson(input.text) /\ BinReadsChunk(1)

C1_Witness ==
    /\ JsonThenBin /\ pc = "Done"
    /\ binRead.status = "ok" /\ binRead.o = 1 /\ binRead.n = 1
    /\ result.bin.byteLength = 2

\* ------------------------------------------------------------------ C2
JsonOnly == WellFormedChunked /\ Chunks = <<>>

\* C2: when the JSON chunk ends exactly at the end of the source, unpack
\* returns the parse of exactly the chunk's bytes and no bin, and the only
\* reads are the 20-byte header read and one read of chunkLength bytes.
C2_JsonOnlyNoFurtherRead ==
    JsonOnly =>
        /\ IssuedPrefixOf(<< HeaderRead, << HeaderLoadLength, TextLength >> >>)
        /\ OnlyTransportFails
        /\ pc = "Done" =>
              /\ result.present
              /\ result.json = ParseJson(input.text)
              /\ ~result.bin.present
              /\ Len(requests) = 2

C2_Witness == JsonOnly /\ pc = "Done" /\ input.text = ArrayText

\* ------------------------------------------------------------------ C3
\* C3 (as claimed): a legacy container with matching declared length, JSON
\* content format, N bytes of JSON text and M > 0 trailing bytes unpacks to
\* the parse of the N bytes and a bin of byteLength M starting at 20 + N.
C3_LegacyBinIsTrailingBytes ==
    WellFormedLegacy /\ input.trailing > 0 /\ pc = "Done" =>
        /\ result.json = ParseJson(input.text)
        /\ result.bin.present
        /\ result.bin.byteLength = input.trailing
        /\ result.bin.start = HeaderLoadLength + TextLength

\* ------------------------------------------------------------------ C4
\* C4 (as claimed): a legacy container whose JSON text (N > 0 bytes) ends
\* exactly at the end of the source unpacks to bin = none.
C4_LegacyNoBinWithoutTrailingBytes ==
    WellFormedLegacy /\ TextLength > 0 /\ input.trailing = 0 /\ pc = "Done" =>
        ~result.bin.present

\* ------------------------------------------------------------------ C5
IsUnknownTag(t) == t \notin {ChunkFormatJSON, ChunkFormatBIN}
UnknownsThenBin ==
    /\ WellFormedChunked
    /\ Len(Chunks) >= 2
    /\ Chunks[Len(Chunks)].tag = ChunkFormatBIN
    /\ \A i \in 1..(Len(Chunks) - 1) : IsUnknownTag(Chunks[i].tag)

\* C5: unknown-tag chunks of any length between the JSON chunk and the BIN
\* chunk are skipped: the decode fails only where the transport does, json
\* is the parse of the JSON chunk, and bin is the BIN chunk's payload, as
\* for the container without them.
C5_UnknownChunksSkipped ==
    UnknownsThenBin =>
        /\ OnlyTransportFails
        /\ pc = "Done" =>
              /\ result.json = ParseJson(input.text)
              /\ BinReadsChunk(Len(Chunks))

C5_Witness ==
    /\ UnknownsThenBin /\ Len(Chunks) = 3 /\ pc = "Done"
    /\ Chunks[1].len = 0 /\ Chunks[2].len = 2
    /\ Chunks[1].tag = ContentFormatJSON /\ Chunks[2].tag = UnknownTag
    /\ binRead.status = "ok" /\ binRead.n = 2

\* ------------------------------------------------------------------ C6
SecondJsonChunk ==
    WellFormedChunked /\ \E i \in 1..Len(Chunks) : Chunks[i].tag = ChunkFormatJSON

\* C6: a second JSON-tagged chunk, at any position after the first chunk,
\* makes the decode fail with DuplicateJsonChunk (unless the transport failed
\* first); no LoaderData is produced, also when a BIN chunk was recorded.
C6_DuplicateJsonChunkFails ==
    SecondJsonChunk => FailsWith("DuplicateJsonChunk")

C6_Witness ==
    /\ SecondJsonChunk /\ pc = "Fail" /\ error = "DuplicateJsonChunk"
    /\ data.bin.present /\ Len(Chunks) = 3 /\ Chunks[3].tag = ChunkFormatJSON

\* ------------------------------------------------------------------ C7
\* C7 (as claimed): with the first 4 bytes corrupted, the decode fails with
\* BadMagic having requested no bytes beyond the first 4.
C7_BadMagicWithinFourBytes ==
    ~MagicOk =>
        /\ FailsWith("BadMagic")
        /\ pc = "Fail" /\ error = "BadMagic" => RequestsWithin(4)

\* C7 (amended): with the first 4 bytes corrupted, the decode fails with
\* BadMagic (unless the transport failed first) having issued nothing but
\* the one read of the first 20 bytes; no strategy is selected and no
\* LoaderData is produced.
C7_BadMagicAfterHeaderRead ==
    ~MagicOk =>
        /\ FailsWith("BadMagic")
        /\ IssuedPrefixOf(<< HeaderRead >>)
        /\ strategy = "none"
        /\ HeaderProcessed => pc = "Fail" /\ error = "BadMagic"

C7_Witness ==
    /\ ~MagicOk /\ pc = "Fail" /\ error = "BadMagic" /\ input.magicFlip = 4
    /\ requests = << HeaderRead >>

\* ------------------------------------------------------------------ C8
UnsupportedVersion == HeaderOk /\ input.version \notin {1, 2}

\* C8 (as claimed): a format version other than 1 or 2 fails with
\* UnsupportedContainerVersion and no bytes beyond the 12-byte header are
\* requested; version 1 selects the legacy strategy, version 2 the chunked.
C8_UnsupportedVersionWithinTwelveBytes ==
    /\ UnsupportedVersion =>
          /\ FailsWith("UnsupportedContainerVersion")
          /\ pc = "Fail" /\ error = "UnsupportedContainerVersion"
                => RequestsWithin(12)
    /\ HeaderOk /\ HeaderProcessed /\ input.version = 1 => strategy = "legacy"
    /\ HeaderOk /\ HeaderProcessed /\ input.version = 2 => strategy = "chunked"

\* C8 (amended): a format version other than 1 or 2 fails with
\* UnsupportedContainerVersion (unless the transport failed first) and
\* nothing but the one read of the first 20 bytes is issued; version 1
\* selects the legacy strategy and version 2 the chunked strategy.
C8_UnsupportedVersionAfterHeaderRead ==
    /\ UnsupportedVersion =>
          /\ FailsWith("UnsupportedContainerVersion")
          /\ IssuedPrefixOf(<< HeaderRead >>)
          /\ strategy = "none"
          /\ HeaderProcessed => pc = "Fail" /\ error = "UnsupportedContainerVersion"
    /\ HeaderOk /\ HeaderProcessed /\ input.version = 1 => strategy = "legacy"
    /\ HeaderOk /\ HeaderProcessed /\ input.version = 2 => strategy = "chunked"

C8_Witness ==
    /\ UnsupportedVersion /\ input.version = 3
    /\ pc = "Fail" /\ error = "UnsupportedContainerVersion"
    /\ requests = << HeaderRead >>

FirstTagNotJson ==
    /\ HeaderOk
    /\ \/ input.version = 1 /\ input.firstTag # ContentFormatJSON
       \/ input.version = 2 /\ input.firstTag # ChunkFormatJSON

\* C10: when the uint32 at offset 16 is not the strategy's JSON tag, a
\* legacy decode fails with UnexpectedContentFormat and a chunked decode
\* with FirstChunkNotJson (unless the transport failed first); no JSON is
\* parsed and nothing but the header read is issued.
C10_FirstTagMustBeJson ==
    FirstTagNotJson =>
        /\ FailsWith(IF input.version = 1 THEN "UnexpectedContentFormat"
                                          ELSE "FirstChunkNotJson")
        /\ HeaderProcessed => pc = "Fail"
        /\ data.json = "none"
        /\ IssuedPrefixOf(<< HeaderRead >>)

C10_Witness ==
    /\ FirstTagNotJson /\ input.version = 2 /\ input.firstTag = ChunkFormatBIN
    /\ pc = "Fail" /\ error = "FirstChunkNotJson"

\* ------------------------------------------------------------------- C11
\* a read through bin has been made and the byte source was asked for it
BinRequested == binRead.status # "none"

\* the range of the source the bin view stands for
BinFirst == result.bin.start
BinEnd == result.bin.start + result.bin.byteLength

\* C11: every byte a read through bin asks the byte source for lies in
\* [binStart, binStart + bin.byteLength), also when the read asks for
\* o + n > bin.byteLength.
C11_BinReadsClamped ==
    BinRequested /\ binRead.request[2] > 0 =>
        /\ binRead.request[1] >= BinFirst
        /\ binRead.request[1] + binRead.request[2] <= BinEnd

\* ------------------------------------------------------------------- C12
\* the chunks after the JSON chunk that carry the BIN tag
BinChunks == { i \in 1..Len(Chunks) : Chunks[i].tag = ChunkFormatBIN }

\* C12: when the result has a bin, its range starts at or after the end of
\* the JSON bytes (20 + JSON length); in a chunked container it is the
\* payload of a BIN chunk, so it lies after that chunk's 8-byte header and
\* overlaps no chunk header.
C12_BinAfterJson ==
    result.present /\ result.bin.present =>
        /\ result.bin.start >= HeaderLoadLength + TextLength
        /\ strategy = "chunked" =>
              \E i \in BinChunks :
                  /\ result.bin.start = ChunkStart(i)
                  /\ result.bin.start >= HeaderLoadLength + TextLength
                                           + ChunkHeaderLength
                  /\ result.bin.byteLength = Chunks[i].len

\* a chunked and a legacy result with a bin have been produced
C12_Witness ==
    /\ result.present /\ result.bin.present
    /\ strategy = "chunked"
    /\ TextLength > 0
    /\ Len(Chunks) >= 2 /\ Chunks[1].tag # ChunkFormatBIN

\* ------------------------------------------------------------------- C13
\* C13: a chunked container with two or more BIN chunks is not decoded into
\* a result that keeps one of them.
C13_SecondBinChunkRejected ==
    input.version = 2 /\ Cardinality(BinChunks) >= 2 => ~result.present

NoSecondJson == \A i \in 1..Len(Chunks) : Chunks[i].tag # ChunkFormatJSON

\* the last BIN chunk of the container
LastBinChunk == CHOOSE i \in BinChunks : \A j \in BinChunks : j <= i

\* C13 (amended): the unpacker does not count BIN chunks: a well-formed
\* chunked container with two or more BIN chunks and no second JSON chunk
\* fails only when the transport fails, and its result's bin is the payload
\* of the last BIN chunk.
C13_LastBinChunkKept ==
    WellFormedChunked /\ Cardinality(BinChunks) >= 2 /\ NoSecondJson =>
        /\ OnlyTransportFails
        /\ pc = "Done" => BinReadsChunk(LastBinChunk)

C13_Witness ==
    /\ WellFormedChunked /\ Cardinality(BinChunks) >= 2 /\ NoSecondJson
    /\ Chunks[1].tag = ChunkFormatBIN /\ Chunks[1].len # Chunks[LastBinChunk].len
    /\ pc = "Done" /\ result.present
\* ------------------------------------------------------------------- C14
\* C14: under range requests the completion is notified exactly once per
\* requestFile call, not before the unpack has finished, and it is notified
\* when the unpack succeeded and when it failed.
C14_CompleteNotifiedOnce ==
    Mode = "range" =>
        /\ onCompleteCalls <= 1
        /\ onCompleteCalls = 1 => pc \in {"Done", "Fail"}
        /\ settled => onCompleteCalls = 1

\* ------------------------------------------------------------------- C15
InFlight(fs) == { i \in 1..Len(fs) : fs[i].status = "inflight" }
Aborted(fs) == { i \in 1..Len(fs) : fs[i].status = "aborted" }

\* abort() was called while a read was pending
AbortedWhilePending == Mode = "range" /\ Aborted(fetches) # {}

Responses(fs) == { i \in 1..Len(fs) : fs[i].status = "done" }
FirstResponse(fs) == fs[CHOOSE i \in Responses(fs) : \A j \in Responses(fs) : i <= j]
LastResponse(fs) == fs[CHOOSE i \in Responses(fs) : \A j \in Responses(fs) : j <= i]

DeclaredLength == Len(arrayBuffer) + input.lenDelta

C18_OneCallbackPerDecode ==
    /\ [](/\ onSuccessCalls + onErrorCalls <= 1
          /\ onSuccessCalls = 1 => pc = "Done" /\ result.present
          /\ onErrorCalls = 1 => pc = "Fail" /\ ~result.present
          /\ settled => onSuccessCalls + onErrorCalls = 1
          /\ pc = "Fail" => pending.status = "none" /\ InFlight(fetches) = {})
    /\ [][pc = "Fail" => /\ pc' = "Fail"
                         /\ Len(fetches') = Len(fetches)
                         /\ requests' = requests]_vars

\* a decode that failed on its JSON text after two reads has called onError
C18_Witness ==
    /\ settled /\ onErrorCalls = 1 /\ onSuccessCalls = 0
    /\ error = "SyntaxError" /\ Len(fetches) = 2

\* ------------------------------------------------------------------- C19
\* C19: at most one read is outstanding in every reachable state, it is the
\* latest one issued, and a read is issued only when every earlier read has
\* completed.
C19_ReadsSequential ==
    /\ [](/\ Cardinality(InFlight(fetches)) <= 1
          /\ InFlight(fetches) \subseteq {Len(fetches)}
          /\ pending.status = "inflight" =>
                fetches[Len(fetches)].status \in {"inflight", "aborted"})
    /\ [][Len(fetches') > Len(fetches) =>
             \A i \in 1..Len(fetches) : fetches[i].status = "done"]_vars

\* the fourth read of a decode is outstanding
C19_Witness ==
    /\ Len(fetches) >= 4
    /\ InFlight(fetches) = {Len(fetches)}
    /\ pc = "NextHeader"
\* ------------------------------------------------------------------- C20
IsDigits(t) == t # <<>> /\ \A k \in 1..Len(t) : t[k] \in Digits

\* the value of a decimal numeral, taken from its last digit
RECURSIVE Decimal(_)
Decimal(ds) ==
    IF ds = <<>> THEN 0
    ELSE 10 * Decimal(SubSeq(ds, 1, Len(ds) - 1)) + DigitValue(ds[Len(ds)])

\* t is major "." minor rest, major and minor the longest runs of digits
LeadsWith(t, major, minor) ==
    /\ IsDigits(major) /\ IsDigits(minor)
    /\ Len(t) >= Len(major) + 1 + Len(minor)
    /\ SubSeq(t, 1, Len(major) + 1 + Len(minor)) = major \o << "." >> \o minor
    /\ Len(t) > Len(major) + 1 + Len(minor)
          => t[Len(major) + 2 + Len(minor)] \notin Digits

Prefixes(t) == { SubSeq(t, 1, n) : n \in 0..Len(t) }
Parts(t) == { SubSeq(t, m, n) : m \in 1..(Len(t) + 1), n \in 0..Len(t) }

VersionText == assetVersion.text

\* C20: _parseVersion gives {1, 0} for "1.0" and for "1.0.1"; for a text
\* that starts with digits, a dot and digits it gives the two numbers as
\* integers ("2.0" gives {2, 0}); for a text that does not start so
\* ("garbage") and for a missing version it gives nothing.
C20_ParseVersion ==
    parsed.state # "unset" =>
        /\ VersionText \in { << "1", ".", "0" >>, << "1", ".", "0", ".", "1" >> }
              => parsed = VersionOf(1, 0)
        /\ VersionText = << "2", ".", "0" >> => parsed = VersionOf(2, 0)
        /\ \A major \in Prefixes(VersionText), minor \in Parts(VersionText) :
              LeadsWith(VersionText, major, minor)
                  => parsed = VersionOf(Decimal(major), Decimal(minor))
        /\ (~\E major \in Prefixes(VersionText), minor \in Parts(VersionText) :
                 LeadsWith(VersionText, major, minor))
              => parsed = Null
        /\ VersionText = Garbage \/ ~assetVersion.defined => parsed = Null

\* a text with two-digit numbers and a rest has been parsed
C20_Witness ==
    /\ parsed.state = "version"
    /\ parsed.major >= 10 /\ parsed.minor >= 1
    /\ Len(VersionText) = MaxVersionLen
\* ------------------------------------------------------------------- C22
\* C22: no readUint32 or readString reads bytes beyond the loaded window:
\* the farthest byte read so far lies below loaded, in either strategy and
\* over either kind of source.
C22_FieldReadsWithinWindow == consumed <= loaded

\* ------------------------------------------------------------------- C23
\* C23: the cursor satisfies 0 <= byteOffset <= loaded in every state,
\* also right after a chunk was skipped.
C23_CursorWithinWindow == 0 <= byteOffset /\ byteOffset <= loaded

\* C23 (amended): the cursor is never negative and never decreases, and it
\* lies within the window until bytes are passed over that were never
\* loaded: after the payload of a BIN or unknown chunk was skipped it lies
\* that chunk's length beyond loaded, and after the legacy strategy read its
\* JSON text it lies the text's length beyond loaded (the flaw of C22).
C23_CursorLeavesWindowByPayload ==
    /\ [](/\ 0 <= byteOffset
          /\ \/ byteOffset <= loaded
             \/ strategy = "chunked" /\ byteOffset = loaded + chunkLength
             \/ strategy = "legacy" /\ byteOffset = loaded + TextLength)
    /\ [][byteOffset' >= byteOffset]_vars

\* a BIN chunk of two bytes was skipped and the next header is awaited
C23_Witness ==
    /\ pc = "NextHeader" /\ data.bin.present
    /\ chunkLength = 2 /\ byteOffset = loaded + 2

\* ------------------------------------------------------------------- C24
\* the container has the chunked layout with every byte of its chunks
ChunkedLayout ==
    /\ HeaderOk /\ input.cut = 0
    /\ input.version = 2 /\ input.firstTag = ChunkFormatJSON

Overlaps(r, from, n) == r[2] > 0 /\ n > 0 /\ r[1] < from + n /\ from < r[1] + r[2]

StableTotals == input.transport.laterTotalKnown

ChunkWalkReads(k) ==
    [j \in 1..(k + 1) |->
        CASE j = 1 -> HeaderRead
          [] j = 2 -> << HeaderLoadLength, TextLength + ChunkHeaderLength >>
          [] OTHER -> << ChunkStart(j - 2), Chunks[j - 2].len + ChunkHeaderLength >>]

WalkedChunks ==
    /\ WellFormedChunked /\ StableTotals /\ NoSecondJson
    /\ Len(Chunks) >= 1

FirstHeaderFailure ==
    CASE ~MagicOk -> "BadMagic"
      [] MagicOk /\ ~(input.lenDelta = 0 /\ input.transport.totalKnown)
            -> "LengthMismatch"
      [] HeaderOk /\ input.version \notin {1, 2} -> "UnsupportedContainerVersion"
      [] HeaderOk /\ input.version = 1 /\ input.firstTag # ContentFormatJSON
            -> "UnexpectedContentFormat"
      [] HeaderOk /\ input.version = 2 /\ input.firstTag # ChunkFormatJSON
            -> "FirstChunkNotJson"
      [] OTHER -> "none"

HeaderFailures ==
    { "BadMagic", "LengthMismatch", "UnsupportedContainerVersion",
      "UnexpectedContentFormat", "FirstChunkNotJson" }

\* the end of the last header field read when the header fails with e
FieldsReadUpTo(e) ==
    CASE e = "BadMagic" -> 4
      [] e \in {"LengthMismatch", "UnsupportedContainerVersion"} -> 12
      [] OTHER -> HeaderLoadLength

\* C26: once the header has been looked at, the failure reported is the one
\* of the first check the container violates in the order magic, declared
\* length, version, first content tag; no header failure is reported for a
\* container that violates none; and no field after the failing one has
\* been read.
C26_FirstViolatedCheckReported ==
    HeaderProcessed =>
        IF FirstHeaderFailure = "none" THEN error \notin HeaderFailures
        ELSE /\ pc = "Fail" /\ error = FirstHeaderFailure
             /\ consumed = FieldsReadUpTo(error)
             /\ byteOffset = consumed

\* a container with a bad magic, a wrong length, an unsupported version and
\* a wrong first tag has failed
C26_Witness ==
    /\ pc = "Fail" /\ error = "BadMagic"
    /\ input.lenDelta # 0 /\ input.version \notin {1, 2}
    /\ input.firstTag = ChunkFormatBIN

\* ------------------------------------------------------------------- C27
\* C27: when every read is answered in the end, with bytes or a failure,
\* every decode comes to Done or Fail, and a pass of the chunk loop that
\* moves the cursor moves it by at least 8 bytes.
C27_DecodeTerminates ==
    /\ <>(pc \in {"Done", "Fail"})
    /\ [][pc = "NextHeader" /\ byteOffset' # byteOffset =>
             byteOffset' >= byteOffset + ChunkHeaderLength]_vars

\* the decode of a file that ends early has failed after a chunk of length 0
C27_Witness ==
    /\ input.cut > 0 /\ pc = "Fail" /\ error = "SourceReadError"
    /\ Mode = "memory"
    /\ Len(Chunks) = 2 /\ Chunks[1].len = 0
    /\ Len(requests) >= 3

\* ------------------------------------------------------------------- C28
\* C28: in every Done state of the chunked strategy the cursor is at the
\* end of the source (the known length of a source in memory), and the bin
\* of the result does not reach past the end of the source.
C28_ChunksTileSource ==
    strategy = "chunked" /\ pc = "Done" =>
        /\ byteOffset = Len(arrayBuffer)
        /\ Mode = "memory" => byteOffset = byteLength
        /\ result.bin.present =>
              result.bin.start + result.bin.byteLength <= Len(arrayBuffer)

\* a BIN chunk declared longer than the rest of the file was recorded, and
\* the decode failed without a result
C28_Witness ==
    /\ input.cut > 0 /\ pc = "Fail" /\ ~result.present
    /\ data.bin.present
    /\ data.bin.start + data.bin.byteLength > Len(arrayBuffer)

\* ---------------------------------------- _compareVersion on its own
CompareInit ==
    /\ DecodeInit(IdleInput)
    /\ assetVersion = NoVersion
    /\ parsed = NotParsed
    /\ operands \in Pairs \X Pairs \X Pairs
    /\ compared = NotCompared
    /\ assetMinVersion = NoVersion
    /\ observers = {}
    /\ onParsedObserver = 0
    /\ added = 0
    /\ notified = [o \in Observers |-> 0]
    /\ loader = NoLoader
    /\ created = 0
    /\ lastLoad = NoLoad
    /\ DisposeIdle

\* _compareVersion is called on the pairs of the three operands
CompareVersionCall ==
    /\ compared.state = "unset"
    /\ compared' =
           [state |-> "done",
            ab |-> CompareVersion(operands[1], operands[2]),
            ba |-> CompareVersion(operands[2], operands[1]),
            bc |-> CompareVersion(operands[2], operands[3]),
            ac |-> CompareVersion(operands[1], operands[3])]
    /\ UNCHANGED << decodeVars, assetVersion, parsed, operands,
                    assetMinVersion, observers, onParsedObserver, added,
                    notified, loader, created, lastLoad, disposeVars >>

CompareNext == CompareVersionCall

CompareSpec == CompareInit /\ [][CompareNext]_vars

\* ------------------------------------------------ the load entry points
\* the loader data of an asset has been parsed; its asset.version and
\* asset.minVersion are given to every load
LoaderInit ==
    /\ DecodeInit(IdleInput)
    /\ assetVersion \in AssetTexts
    /\ parsed = NotParsed
    /\ operands = << Pair(0, 0), Pair(0, 0), Pair(0, 0) >>
    /\ compared = NotCompared
    /\ assetMinVersion \in AssetTexts
    /\ observers = {}
    /\ onParsedObserver = 0
    /\ added = 0
    /\ notified = [o \in Observers |-> 0]
    /\ loader = NoLoader
    /\ created = 0
    /\ lastLoad = NoLoad
    /\ DisposeIdle

\* onParsedObservable.add(callback): a new observer
AddObserver ==
    /\ added < MaxObservers
    /\ added' = added + 1
    /\ observers' = observers \cup {added + 1}
    /\ UNCHANGED << decodeVars, assetVersion, parsed, operands, compared,
                    assetMinVersion, onParsedObserver, notified, loader,
                    created, lastLoad, disposeVars >>

\* set onParsed(callback): the observer the setter added before is
\* removed, a new one is added and remembered
SetOnParsed ==
    /\ added < MaxObservers
    /\ added' = added + 1
    /\ observers' =
           (IF onParsedObserver # 0 THEN Remove(observers, onParsedObserver)
            ELSE observers) \cup {added + 1}
    /\ onParsedObserver' = added + 1
    /\ UNCHANGED << decodeVars, assetVersion, parsed, operands, compared,
                    assetMinVersion, notified, loader, created, lastLoad,
                    disposeVars >>

\* this._loader = this._getLoader(data): a throw leaves _loader as it was
AssignLoader(entry, registered, raised) ==
    LET got == GetLoader(assetVersion, assetMinVersion)
    IN  /\ lastLoad' = [calls |-> lastLoad.calls + 1, entry |-> entry,
                        registered |-> registered, raised |-> raised,
                        error |-> got.error]
        /\ loader' = IF got.error = NoError THEN Created(got.major) ELSE loader
        /\ created' = IF got.error = NoError THEN created + 1 ELSE created
        /\ disposals' = IF got.error = NoError THEN Append(disposals, 0)
                        ELSE disposals

\* importMeshAsync and loadAsync: notifyObservers, clear, _getLoader
NotifyAndLoad(entry) ==
    /\ lastLoad.calls < MaxLoads
    /\ notified' = NotifyObservers(observers, notified)
    /\ observers' = Clear(observers)
    /\ AssignLoader(entry, observers, observers)
    /\ UNCHANGED << decodeVars, assetVersion, parsed, operands, compared,
                    assetMinVersion, onParsedObserver, added,
                    disposeObserverVars >>

ImportMeshAsync == NotifyAndLoad("importMeshAsync")

LoadAsync == NotifyAndLoad("loadAsync")

\* loadAssetContainerAsync: _getLoader at once
LoadAssetContainerAsync ==
    /\ lastLoad.calls < MaxLoads
    /\ AssignLoader("loadAssetContainerAsync", observers, {})
    /\ UNCHANGED << decodeVars, assetVersion, parsed, operands, compared,
                    assetMinVersion, observers, onParsedObserver, added,
                    notified, disposeObserverVars >>

LoaderNext ==
    \/ AddObserver
    \/ SetOnParsed
    \/ ImportMeshAsync
    \/ LoadAsync
    \/ LoadAssetContainerAsync

LoaderSpec == LoaderInit /\ [][LoaderNext]_vars

\* ------------------------------------------------------------------ C21
\* a comes before b in the lexicographic order on (major, minor)
LexLess(a, b) ==
    a.major < b.major \/ (a.major = b.major /\ a.minor < b.minor)

\* C21: _compareVersion is the lexicographic total order on (major,
\* minor): for all pairs a, b, c its value is -1, 0 or 1, it is negative
\* exactly when a comes before b in that order and 0 exactly when a and b
\* have the same major and minor, compare(a, b) = -compare(b, a), and it
\* is transitive; {1,0} is below {2,0}, {2,1} above {2,0}, {2,0} equal to
\* {2,0}.
C21_CompareIsLexicographicOrder ==
    compared.state = "done" =>
        LET a == operands[1]
            b == operands[2]
            c == operands[3]
        IN  /\ compared.ab \in {0 - 1, 0, 1}
            /\ compared.ab = 0 <=> (a.major = b.major /\ a.minor = b.minor)
            /\ compared.ab < 0 <=> LexLess(a, b)
            /\ compared.ab = 0 - compared.ba
            /\ compared.ab <= 0 /\ compared.bc <= 0 => compared.ac <= 0
            /\ compared.ab < 0 /\ compared.bc <= 0 => compared.ac < 0
            /\ compared.ab <= 0 /\ compared.bc < 0 => compared.ac < 0
            /\ a = Pair(1, 0) /\ b = Pair(2, 0) => compared.ab < 0
            /\ a = Pair(2, 1) /\ b = Pair(2, 0) => compared.ab > 0
            /\ a = Pair(2, 0) /\ b = Pair(2, 0) => compared.ab = 0

\* {2,1} has been compared with {2,0} and {2,0} with a pair of a greater
\* major and a smaller minor
C21_Witness ==
    /\ compared.state = "done"
    /\ operands[1] = Pair(2, 1)
    /\ operands[2] = Pair(2, 0)
    /\ operands[3].major > 2
    /\ compared.ab = 1
    /\ compared.bc = 0 - 1

\* ------------------------------------------------------------------ C29
\* what _parseVersion makes of asset.version and of asset.minVersion
AssetVersion == ParseVersion(assetVersion)
AssetMinVersion == ParseVersion(assetMinVersion)
MinVersionPresent == assetMinVersion.defined
MinVersionAboveTwo ==
    AssetMinVersion.major > 2
    \/ (AssetMinVersion.major = 2 /\ AssetMinVersion.minor > 0)

\* C29: the loader is chosen from the major of asset.version only, and
\* the checks run in this order: an unparsable asset.version is an invalid
\* version; then a present minVersion that is unparsable is an invalid
\* minimum version and one greater than {2,0} is incompatible; then a
\* major other than 1 or 2 is unsupported. A load that fails creates no
\* loader and leaves _loader as it was.
C29_LoaderChosenByMajorAfterChecks ==
    /\ [](lastLoad.entry # "none" =>
            CASE AssetVersion = Null -> lastLoad.error = "InvalidVersion"
              [] AssetVersion # Null /\ MinVersionPresent
                 /\ AssetMinVersion = Null -> lastLoad.error = "InvalidMinVersion"
              [] AssetVersion # Null /\ MinVersionPresent
                 /\ AssetMinVersion # Null /\ MinVersionAboveTwo
                     -> lastLoad.error = "IncompatibleMinVersion"
              [] OTHER ->
                    IF AssetVersion.major \in {1, 2}
                    THEN /\ lastLoad.error = NoError
                         /\ loader = Created(AssetVersion.major)
                    ELSE lastLoad.error = "UnsupportedVersion")
    /\ [][lastLoad'.calls # lastLoad.calls /\ lastLoad'.error # NoError
            => loader' = loader /\ created' = created]_vars
    /\ [][lastLoad'.calls # lastLoad.calls /\ lastLoad'.error = NoError
            => created' = created + 1]_vars

\* a load failed on a minVersion above {2,0} although the major of the
\* asset's version has no loader either
C29_Witness ==
    /\ lastLoad.error = "IncompatibleMinVersion"
    /\ AssetVersion # Null
    /\ AssetVersion.major \notin {1, 2}
    /\ created = 0

\* ------------------------------------------------------------------ C30
\* C30: every load entry point notifies the observers of
\* onParsedObservable that are registered when it is called, each exactly
\* once and also when loader selection then fails, and clears them, so no
\* observer is ever notified for more than one load.
C30_ParsedRaisedOncePerLoad ==
    /\ lastLoad.entry # "none" =>
          /\ lastLoad.raised = lastLoad.registered
          /\ observers \cap lastLoad.registered = {}
    /\ \A o \in Observers : notified[o] <= 1

\* ---------------------------------------------------------------- dispose
\* get loaderState: the inner loader's state, or null without a loader
LoaderState(l) == IF l.state = "created" THEN "state" ELSE "null"

\* if (this._loader) { this._loader.dispose() }: _loader is the loader
\* created last
DisposeLoader(ds, l) ==
    IF l.state = "created" THEN [ds EXCEPT ![Len(ds)] = @ + 1] ELSE ds

\* a loader that is used for loads and disposed: its asset has a version
\* with a loader of its own or without one
DisposeAssets ==
    [defined : {TRUE},
     text : { << DigitChar(a), ".", "0" >> : a \in 1..MaxComponent }]

DisposeInit ==
    /\ DecodeInit(IdleInput)
    /\ assetVersion \in DisposeAssets
    /\ parsed = NotParsed
    /\ operands = << Pair(0, 0), Pair(0, 0), Pair(0, 0) >>
    /\ compared = NotCompared
    /\ assetMinVersion = NoVersion
    /\ observers = {}
    /\ onParsedObserver = 0
    /\ added = 0
    /\ notified = [o \in Observers |-> 0]
    /\ loader = NoLoader
    /\ created = 0
    /\ lastLoad = NoLoad
    /\ DisposeIdle

\* onDisposeObservable.add(callback): a new observer
AddDisposeObserver ==
    /\ disposeAdded < MaxObservers
    /\ disposeAdded' = disposeAdded + 1
    /\ disposeObservers' = disposeObservers \cup {disposeAdded + 1}
    /\ UNCHANGED << decodeVars, assetVersion, parsed, operands, compared,
                    assetMinVersion, observers, onParsedObserver, added,
                    notified, loader, created, lastLoad, disposals,
                    onDisposeObserver, disposeNotified, disposal >>

\* set onDispose(callback): the observer the setter added before is
\* removed, a new one is added and remembered
SetOnDispose ==
    /\ disposeAdded < MaxObservers
    /\ disposeAdded' = disposeAdded + 1
    /\ disposeObservers' =
           (IF onDisposeObserver # 0
            THEN Remove(disposeObservers, onDisposeObserver)
            ELSE disposeObservers) \cup {disposeAdded + 1}
    /\ onDisposeObserver' = disposeAdded + 1
    /\ UNCHANGED << decodeVars, assetVersion, parsed, operands, compared,
                    assetMinVersion, observers, onParsedObserver, added,
                    notified, loader, created, lastLoad, disposals,
                    disposeNotified, disposal >>

\* dispose(): the loader, if there is one, is disposed and forgotten, the
\* observers of onDisposeObservable are notified and cleared
Dispose ==
    /\ disposal.calls < MaxDisposes
    /\ disposals' = DisposeLoader(disposals, loader)
    /\ loader' = NoLoader
    /\ disposeNotified' = NotifyObservers(disposeObservers, disposeNotified)
    /\ disposeObservers' = Clear(disposeObservers)
    /\ disposal' =
           [calls |-> disposal.calls + 1, atLoad |-> lastLoad.calls,
            first |-> IF disposal.calls = 0 THEN disposeObservers
                      ELSE disposal.first]
    /\ UNCHANGED << decodeVars, assetVersion, parsed, operands, compared,
                    assetMinVersion, observers, onParsedObserver, added,
                    notified, created, lastLoad, onDisposeObserver,
                    disposeAdded >>

DisposeNext ==
    \/ ImportMeshAsync
    \/ LoadAsync
    \/ LoadAssetContainerAsync
    \/ AddDisposeObserver
    \/ SetOnDispose
    \/ Dispose

DisposeSpec == DisposeInit /\ [][DisposeNext]_vars

\* ------------------------------------------------------------------ C31
\* dispose() was the last of the load and dispose calls
JustDisposed == disposal.calls > 0 /\ disposal.atLoad = lastLoad.calls

\* C31: after any sequence of load calls and dispose calls, right after
\* dispose() loaderState is null, every loader that was created has been
\* disposed exactly once, and every observer of onDisposeObservable that
\* was registered at the first dispose has been notified exactly once.
C31_DisposeReleasesEveryLoader ==
    JustDisposed =>
        /\ LoaderState(loader) = "null"
        /\ \A i \in 1..Len(disposals) : disposals[i] = 1
        /\ \A o \in disposal.first : disposeNotified[o] = 1
====
